---- MODULE Spec2Model ----
(***************************************************************************)
(* A model of ElasticsearchService (src/index.ts): the scope resolver, the *)
(* term tracker, index configuration, the bulk mutation builder, and the   *)
(* listProducts / listBrands query compiler with its pagination cursor.    *)
(*                                                                         *)
(* JavaScript strings that the code inspects character by character       *)
(* (toLowerCase, regular expressions, base64, JSON) are sequences of       *)
(* one-character strings; names that the code only passes around are TLA+  *)
(* strings.  An optional value is <<>> when undefined and <<v>> otherwise. *)
(***************************************************************************)
EXTENDS Integers, Sequences, FiniteSets, TLC

VARIABLES
    queryterms,     \* documents of the 'queryterms' index
    boostedterms,   \* documents of the 'boostedterms' index
    tracked,        \* history: engine-acknowledged term writes
    termCall,       \* the last term-tracker call and how it ended
    indexState,     \* the target index on the engine: exists / open
    configCall,     \* the last configIndex call and how it ended
    options,        \* the caller's ListProductsOptions object
    cursorOf,       \* history: the sort tuple options.nextToken was issued for
    listCall,       \* the last listProducts / listBrands call and how it ended
    bulkCall        \* the last bulk mutation call: its input, bulk body, and how it ended

vars == <<queryterms, boostedterms, tracked, termCall, indexState, configCall,
          options, cursorOf, listCall, bulkCall>>

termVars == <<queryterms, boostedterms, tracked, termCall>>
configVars == <<indexState, configCall>>
listVars == <<options, cursorOf, listCall>>
bulkVars == <<bulkCall>>

----------------------------------------------------------------------------
(* Bounds of the model *)

\* engine-acknowledged term writes followed in one behaviour
MaxWrites == 2

\* option fields a caller sets on one options object when filters are combined
MaxSet == 2

\* largest page size a caller asks for
MaxSize == 2

\* longest list of records handed to one bulk mutation
MaxRecords == 2

----------------------------------------------------------------------------
(* JavaScript values *)

Undefined == <<>>
Def(v) == <<v>>
IsDef(o) == o # <<>>
Val(o) == o[1]

\* JavaScript truthiness of an optional string: undefined and '' are falsy
TruthyStr(o) == IsDef(o) /\ Val(o) # <<>>

Lowers == << "a","b","c","d","e","f","g","h","i","j","k","l","m",
             "n","o","p","q","r","s","t","u","v","w","x","y","z" >>
Uppers == << "A","B","C","D","E","F","G","H","I","J","K","L","M",
             "N","O","P","Q","R","S","T","U","V","W","X","Y","Z" >>

LowerOf == [c \in {Uppers[i] : i \in 1..Len(Uppers)} |->
               Lowers[CHOOSE i \in 1..Len(Uppers) : Uppers[i] = c]]

ToLowerChar(c) == IF c \in DOMAIN LowerOf THEN LowerOf[c] ELSE c

\* String.prototype.toLowerCase
toLowerCase(s) == [i \in 1..Len(s) |-> ToLowerChar(s[i])]

\* Array.prototype.join over strings
RECURSIVE Join(_, _)
Join(parts, sep) ==
    IF parts = <<>> THEN <<>>
    ELSE IF Len(parts) = 1 THEN parts[1]
    ELSE parts[1] \o sep \o Join(Tail(parts), sep)

\* Array.prototype.filter(Boolean) over strings: '' is dropped
FilterBoolean(parts) == SelectSeq(parts, LAMBDA p : p # <<>>)

\* s contains sub as a contiguous substring
Contains(s, sub) ==
    \E i \in 0..(Len(s) - Len(sub)) :
        \A j \in 1..Len(sub) : s[i + j] = sub[j]

\* /sub/i.test(s) for a pattern of plain letters
TestIgnoreCase(sub, s) == Contains(toLowerCase(s), toLowerCase(sub))

----------------------------------------------------------------------------
(* Errors *)

\* engine failures: a transport error has no meta; a response error carries
\* the engine's error body
ConnectionError == [class |-> "ConnectionError", message |-> "connect ECONNREFUSED",
                    meta |-> Undefined]
VersionConflict ==
    [class |-> "ResponseError", message |-> "version_conflict_engine_exception",
     meta |-> Def([root_cause |-> Def(<< [type |-> "version_conflict_engine_exception",
                                          reason |-> "version conflict"] >>),
                   caused_by |-> Undefined])]
IllegalArgument ==
    [class |-> "ResponseError", message |-> "Response Error",
     meta |-> Def([root_cause |-> Undefined,
                   caused_by |-> Def([type |-> "illegal_argument_exception",
                                      reason |-> "bad request"])])]
IndexNotFound ==
    [class |-> "ResponseError", message |-> "index_not_found_exception",
     meta |-> Def([root_cause |-> Def(<< [type |-> "index_not_found_exception",
                                          reason |-> "no such index"] >>),
                   caused_by |-> Undefined])]

KobpError(kind, code, message, data) ==
    [class |-> "KobpError", message |-> message, meta |-> Undefined,
     kind |-> kind, code |-> code, data |-> data]

typeWithReason(o) ==
    IF o.type # "" /\ o.reason # "" THEN o.type \o ": " \o o.reason
    ELSE o.type \o o.reason

RECURSIVE JoinNames(_, _)
JoinNames(parts, sep) ==
    IF parts = <<>> THEN ""
    ELSE IF Len(parts) = 1 THEN parts[1]
    ELSE parts[1] \o sep \o JoinNames(Tail(parts), sep)

NormalizeESErrorMessage(error) ==
    IF ~IsDef(error.meta) THEN error.message
    ELSE LET node == Val(error.meta) IN
         IF IsDef(node.root_cause)
         THEN JoinNames([i \in 1..Len(Val(node.root_cause)) |->
                            typeWithReason(Val(node.root_cause)[i])], ", ")
         ELSE IF IsDef(node.caused_by) /\ typeWithReason(Val(node.caused_by)) # ""
         THEN typeWithReason(Val(node.caused_by))
         ELSE error.message

\* how a call ends
Returned(value) == [kind |-> "returned", value |-> value]
Threw(error) == [kind |-> "threw", error |-> error]

RethrowElasticSearchError(error) == Threw(error)

\* .catch(_logElasticSearchError): the rejection is consumed, the awaited
\* promise resolves with undefined
LogElasticSearchError(error) == Returned("undefined")

ThrowElasticSearchError(error) ==
    Threw(KobpError("server", "badGateway", "ElasticSearch encountered an error",
                    NormalizeESErrorMessage(error)))

IsServerGatewayError(e) ==
    e.class = "KobpError" /\ e.kind = "server" /\ e.code = "badGateway"
IsClientInputError(e) == e.class = "KobpError" /\ e.kind = "userInput"
IsRawEngineError(e) == e.class \in {"ConnectionError", "ResponseError"}

----------------------------------------------------------------------------
(* Cursor codec: JSON.stringify / JSON.parse and Buffer's utf8 and base64 *)

\* the printable ASCII characters, code 32 first
Printable == <<
    " ", "!", "\"", "#", "$", "%", "&", "'", "(", ")", "*", "+",
    ",", "-", ".", "/", "0", "1", "2", "3", "4", "5", "6", "7",
    "8", "9", ":", ";", "<", "=", ">", "?", "@", "A", "B", "C",
    "D", "E", "F", "G", "H", "I", "J", "K", "L", "M", "N", "O",
    "P", "Q", "R", "S", "T", "U", "V", "W", "X", "Y", "Z", "[",
    "\\", "]", "^", "_", "<grave>", "a", "b", "c", "d", "e", "f", "g",
    "h", "i", "j", "k", "l", "m", "n", "o", "p", "q", "r", "s",
    "t", "u", "v", "w", "x", "y", "z", "{", "|", "}", "~" >>

\* what toString('utf8') yields for a byte that is not printable ASCII
ReplacementChar == "<U+FFFD>"

CodeOf == [c \in {Printable[i] : i \in 1..Len(Printable)} |->
             31 + (CHOOSE i \in 1..Len(Printable) : Printable[i] = c)]

\* Buffer.from(s, 'utf8') for ASCII text
Utf8Bytes(s) == [i \in 1..Len(s) |-> CodeOf[s[i]]]

\* buf.toString('utf8')
Utf8Text(bytes) ==
    [i \in 1..Len(bytes) |->
        IF bytes[i] >= 32 /\ bytes[i] <= 126 THEN Printable[bytes[i] - 31]
        ELSE ReplacementChar]

Base64Alphabet == <<
    "A", "B", "C", "D", "E", "F", "G", "H", "I", "J", "K", "L", "M", "N", "O", "P",
    "Q", "R", "S", "T", "U", "V", "W", "X", "Y", "Z", "a", "b", "c", "d", "e", "f",
    "g", "h", "i", "j", "k", "l", "m", "n", "o", "p", "q", "r", "s", "t", "u", "v",
    "w", "x", "y", "z", "0", "1", "2", "3", "4", "5", "6", "7", "8", "9", "+", "/" >>

SextetOf == [c \in {Base64Alphabet[i] : i \in 1..Len(Base64Alphabet)} |->
               (CHOOSE i \in 1..Len(Base64Alphabet) : Base64Alphabet[i] = c) - 1]

B64(n) == Base64Alphabet[n + 1]

\* buf.toString('base64')
RECURSIVE Base64Encode(_)
Base64Encode(bytes) ==
    IF bytes = <<>> THEN <<>>
    ELSE IF Len(bytes) = 1 THEN
        << B64(bytes[1] \div 4), B64((bytes[1] % 4) * 16), "=", "=" >>
    ELSE IF Len(bytes) = 2 THEN
        << B64(bytes[1] \div 4), B64((bytes[1] % 4) * 16 + bytes[2] \div 16),
           B64((bytes[2] % 16) * 4), "=" >>
    ELSE
        << B64(bytes[1] \div 4), B64((bytes[1] % 4) * 16 + bytes[2] \div 16),
           B64((bytes[2] % 16) * 4 + bytes[3] \div 64), B64(bytes[3] % 64) >>
        \o Base64Encode(SubSeq(bytes, 4, Len(bytes)))

\* the sextets of a token up to its first '=', characters outside the
\* alphabet skipped: Buffer.from(s, 'base64') never throws
RECURSIVE Sextets(_)
Sextets(s) ==
    IF s = <<>> \/ s[1] = "=" THEN <<>>
    ELSE IF s[1] \in DOMAIN SextetOf THEN <<SextetOf[s[1]]>> \o Sextets(Tail(s))
    ELSE Sextets(Tail(s))

RECURSIVE BytesOfSextets(_)
BytesOfSextets(x) ==
    IF Len(x) < 2 THEN <<>>
    ELSE IF Len(x) = 2 THEN << x[1] * 4 + x[2] \div 16 >>
    ELSE IF Len(x) = 3 THEN << x[1] * 4 + x[2] \div 16, (x[2] % 16) * 16 + x[3] \div 4 >>
    ELSE << x[1] * 4 + x[2] \div 16, (x[2] % 16) * 16 + x[3] \div 4, (x[3] % 4) * 64 + x[4] >>
         \o BytesOfSextets(SubSeq(x, 5, Len(x)))

\* Buffer.from(s, 'base64')
Base64Decode(s) == BytesOfSextets(Sextets(s))

\* JSON values; each type keeps its value in a field of its own
JNum(n) == [t |-> "num", num |-> n]
JStr(s) == [t |-> "str", str |-> s]
JArr(a) == [t |-> "arr", arr |-> a]
JNull == [t |-> "null"]
JTrue == [t |-> "bool", bool |-> TRUE]
JFalse == [t |-> "bool", bool |-> FALSE]
JEmptyObject == [t |-> "obj"]

Digits == << "0","1","2","3","4","5","6","7","8","9" >>
DigitOf == [c \in {Digits[i] : i \in 1..10} |-> (CHOOSE i \in 1..10 : Digits[i] = c) - 1]

RECURSIVE NatText(_)
NatText(n) == IF n < 10 THEN <<Digits[n + 1]>> ELSE NatText(n \div 10) \o <<Digits[(n % 10) + 1]>>

IntText(n) == IF n < 0 THEN <<"-">> \o NatText(0 - n) ELSE NatText(n)

\* the quoted form of a string: '"' and '\' are escaped
RECURSIVE Escaped(_)
Escaped(s) ==
    IF s = <<>> THEN <<>>
    ELSE IF s[1] = "\"" \/ s[1] = "\\" THEN <<"\\", s[1]>> \o Escaped(Tail(s))
    ELSE <<s[1]>> \o Escaped(Tail(s))

\* JSON.stringify
RECURSIVE JSONstringify(_)
JSONstringify(j) ==
    IF j.t = "num" THEN IntText(j.num)
    ELSE IF j.t = "str" THEN <<"\"">> \o Escaped(j.str) \o <<"\"">>
    ELSE IF j.t = "null" THEN <<"n","u","l","l">>
    ELSE IF j.t = "bool" THEN (IF j.bool THEN <<"t","r","u","e">> ELSE <<"f","a","l","s","e">>)
    ELSE IF j.t = "obj" THEN <<"{", "}">>
    ELSE <<"[">> \o Join([i \in 1..Len(j.arr) |-> JSONstringify(j.arr[i])], <<",">>) \o <<"]">>

\* JSON.parse over texts without white space: integers, strings, the
\* literals, arrays and the empty object.  A parse step yields
\* [ok, val, rest]; ok is FALSE for a SyntaxError.
ParseFail == [ok |-> FALSE, val |-> JNull, rest |-> <<>>]
Parsed(v, rest) == [ok |-> TRUE, val |-> v, rest |-> rest]

StartsWith(s, pre) == Len(s) >= Len(pre) /\ SubSeq(s, 1, Len(pre)) = pre
Drop(s, n) == SubSeq(s, n + 1, Len(s))

\* the digits at the head of s
RECURSIVE DigitRun(_)
DigitRun(s) ==
    IF s # <<>> /\ s[1] \in DOMAIN DigitOf THEN <<s[1]>> \o DigitRun(Tail(s)) ELSE <<>>

RECURSIVE NatOf(_)
NatOf(d) == IF d = <<>> THEN 0 ELSE NatOf(SubSeq(d, 1, Len(d) - 1)) * 10 + DigitOf[d[Len(d)]]

ParseNumber(s) ==
    LET neg == s # <<>> /\ s[1] = "-"
        body == IF neg THEN Tail(s) ELSE s
        run == DigitRun(body)
        \* a number is 0 or starts with a non-zero digit
        digits == IF run # <<>> /\ run[1] = "0" THEN <<"0">> ELSE run
    IN IF digits = <<>> THEN ParseFail
       ELSE Parsed(JNum(IF neg THEN 0 - NatOf(digits) ELSE NatOf(digits)),
                   Drop(body, Len(digits)))

\* the characters of a string literal after its opening quote
RECURSIVE ParseStringTail(_, _)
ParseStringTail(s, acc) ==
    IF s = <<>> THEN ParseFail
    ELSE IF s[1] = "\"" THEN Parsed(JStr(acc), Tail(s))
    ELSE IF s[1] = "\\" THEN
        IF Len(s) >= 2 /\ s[2] \in {"\"", "\\"}
        THEN ParseStringTail(Drop(s, 2), Append(acc, s[2]))
        ELSE ParseFail
    ELSE ParseStringTail(Tail(s), Append(acc, s[1]))

RECURSIVE ParseValue(_)
RECURSIVE ParseElements(_, _)

ParseValue(s) ==
    IF s = <<>> THEN ParseFail
    ELSE IF s[1] = "\"" THEN ParseStringTail(Tail(s), <<>>)
    ELSE IF s[1] = "-" \/ s[1] \in DOMAIN DigitOf THEN ParseNumber(s)
    ELSE IF StartsWith(s, <<"n","u","l","l">>) THEN Parsed(JNull, Drop(s, 4))
    ELSE IF StartsWith(s, <<"t","r","u","e">>) THEN Parsed(JTrue, Drop(s, 4))
    ELSE IF StartsWith(s, <<"f","a","l","s","e">>) THEN Parsed(JFalse, Drop(s, 5))
    ELSE IF StartsWith(s, <<"{","}">>) THEN Parsed(JEmptyObject, Drop(s, 2))
    ELSE IF s[1] = "[" THEN
        IF Len(s) >= 2 /\ s[2] = "]" THEN Parsed(JArr(<<>>), Drop(s, 2))
        ELSE ParseElements(Tail(s), <<>>)
    ELSE ParseFail

\* the elements of a non-empty array after '[' or ','
ParseElements(s, acc) ==
    LET e == ParseValue(s) IN
    IF ~e.ok \/ e.rest = <<>> THEN ParseFail
    ELSE IF e.rest[1] = "," THEN ParseElements(Tail(e.rest), Append(acc, e.val))
    ELSE IF e.rest[1] = "]" THEN Parsed(JArr(Append(acc, e.val)), Tail(e.rest))
    ELSE ParseFail

\* JSON.parse: <<value>>, or <<>> for a SyntaxError
JSONparse(s) ==
    LET r == ParseValue(s) IN
    IF r.ok /\ r.rest = <<>> THEN Def(r.val) ELSE Undefined

SyntaxError == [class |-> "SyntaxError", message |-> "Unexpected token in JSON",
                meta |-> Undefined]

\* Buffer.from(JSON.stringify(sort), 'utf8').toString('base64')
EncodeCursorNoQuotes(sort) ==
    Base64Encode(Utf8Bytes(
        <<"[">> \o Join([i \in 1..Len(sort) |->
                           IF sort[i].t = "str" THEN sort[i].str ELSE JSONstringify(sort[i])],
                        <<",">>) \o <<"]">>))
EncodeCursor(sort) == Base64Encode(Utf8Bytes(JSONstringify(JArr(sort))))

\* JSON.parse(Buffer.from(token, 'base64').toString('utf8'))
DecodeCursor(token) == JSONparse(Utf8Text(Base64Decode(token)))

----------------------------------------------------------------------------
(* Scope resolver *)

fromScopeToDomainNoFilter(scope) ==
    LET dg == IF TruthyStr(scope.brandId) THEN <<"b","r","a","n","d">>
              ELSE <<"g","l","o","b","a","l">>
        ds == IF TruthyStr(scope.brandId) THEN Val(scope.brandId) ELSE <<>>
    IN Join(<<dg, ds>>, <<":">>)

fromScopeToDomain(scope) ==
    LET dg == IF TruthyStr(scope.brandId) THEN <<"b","r","a","n","d">>
              ELSE <<"g","l","o","b","a","l">>
        ds == IF TruthyStr(scope.brandId) THEN Val(scope.brandId) ELSE <<>>
    IN Join(FilterBoolean(<<dg, ds>>), <<":">>)

----------------------------------------------------------------------------
(* Term tracker *)

POPULAR_TERMS_INDEX == "queryterms"
BOOSTED_TERMS_INDEX == "boostedterms"

\* retry_on_conflict of both term updates
RETRY_ON_CONFLICT == 3

\* what the engine does with one update request: how many times in a row a
\* concurrent writer makes the write conflict, or a transport failure
EngineBehaviours ==
    [conflicts : 0..(RETRY_ON_CONFLICT + 1), transport : {FALSE}]
        \cup {[conflicts |-> 0, transport |-> TRUE]}

\* the engine retries a conflicting update retry_on_conflict times, then
\* answers 409; <<>> is success
EngineUpdateError(engine) ==
    IF engine.transport THEN Def(ConnectionError)
    ELSE IF engine.conflicts > RETRY_ON_CONFLICT THEN Def(VersionConflict)
    ELSE Undefined

\* createHash('md5').update(s).digest('base64'), taken as collision free
Md5Base64(s) == <<"md5", s>>

\* the record id of a term write
TermSeparator == <<"/">>
TermId(domain, term) == Md5Base64(toLowerCase(domain \o TermSeparator \o term))

\* the engine's scripted upsert on the popular-terms index:
\* ctx._source.hit += 1, or the upsert document when the id is new
UpsertHit(docs, id, q, domain) ==
    IF \E d \in docs : d.id = id
    THEN {IF d.id = id THEN [d EXCEPT !.hit = @ + 1] ELSE d : d \in docs}
    ELSE docs \cup {[id |-> id, q |-> q, domain |-> domain, hit |-> 1]}

\* the engine's scripted upsert on the boosted-terms index:
\* ctx._source.score = params.score, or the upsert document
UpsertScore(docs, id, q, domain, score) ==
    IF \E d \in docs : d.id = id
    THEN {IF d.id = id THEN [d EXCEPT !.score = score] ELSE d : d \in docs}
    ELSE docs \cup {[id |-> id, q |-> q, domain |-> domain, score |-> score]}

\* history of acknowledged writes: one entry per (index, domain, term, id)
\* with the number of writes
Record(hist, index, domain, q, id) ==
    IF \E h \in hist : h.index = index /\ h.domain = domain /\ h.q = q /\ h.id = id
    THEN {IF h.index = index /\ h.domain = domain /\ h.q = q /\ h.id = id
          THEN [h EXCEPT !.n = @ + 1] ELSE h : h \in hist}
    ELSE hist \cup {[index |-> index, domain |-> domain, q |-> q, id |-> id, n |-> 1]}

RECURSIVE SumN(_)
SumN(hist) ==
    IF hist = {} THEN 0
    ELSE LET h == CHOOSE x \in hist : TRUE IN h.n + SumN(hist \ {h})

\* brand ids and typed terms the callers pass
BrandIds == { Undefined, Def(<<>>), Def(<<"n","k">>), Def(<<"N","K">>) }
Scopes == [brandId : BrandIds]
Terms == { <<"b","a","g">>, <<"B","a","g">> }
Scores == {1, 2}

NoTermCall == [op |-> "none", scope |-> [brandId |-> Undefined], term |-> <<>>,
               domain |-> <<>>, id |-> <<>>, error |-> Undefined,
               outcome |-> Returned("undefined")]

trackUserSearchedKeywords(scope, typed, engine) ==
    LET domain == fromScopeToDomain(scope)
        id == TermId(domain, typed)
        err == EngineUpdateError(engine)
    IN /\ IsDef(err) \/ SumN(tracked) < MaxWrites
       /\ queryterms' = IF IsDef(err) THEN queryterms
                        ELSE UpsertHit(queryterms, id, toLowerCase(typed), domain)
       /\ tracked' = IF IsDef(err) THEN tracked
                     ELSE Record(tracked, POPULAR_TERMS_INDEX, domain, toLowerCase(typed), id)
       /\ termCall' = [op |-> "trackUserSearchedKeywords", scope |-> scope, term |-> typed,
                       domain |-> domain, id |-> id, error |-> err,
                       outcome |-> IF IsDef(err) THEN LogElasticSearchError(Val(err))
                                   ELSE Returned("undefined")]
       /\ UNCHANGED <<boostedterms, configVars, listVars, bulkVars>>

updateDomainBoostedKeywords(scope, keyword, score, engine) ==
    LET domain == fromScopeToDomain(scope)
        id == TermId(domain, keyword)
        err == EngineUpdateError(engine)
    IN /\ IsDef(err) \/ SumN(tracked) < MaxWrites
       /\ boostedterms' = IF IsDef(err) THEN boostedterms
                          ELSE UpsertScore(boostedterms, id, toLowerCase(keyword), domain, score)
       /\ tracked' = IF IsDef(err) THEN tracked
                     ELSE Record(tracked, BOOSTED_TERMS_INDEX, domain, toLowerCase(keyword), id)
       /\ termCall' = [op |-> "updateDomainBoostedKeywords", scope |-> scope, term |-> keyword,
                       domain |-> domain, id |-> id, error |-> err,
                       outcome |-> IF IsDef(err) THEN ThrowElasticSearchError(Val(err))
                                   ELSE Returned("undefined")]
       /\ UNCHANGED <<queryterms, configVars, listVars, bulkVars>>

TrackSearched ==
    \E scope \in Scopes, typed \in Terms, engine \in EngineBehaviours :
        trackUserSearchedKeywords(scope, typed, engine)

SetBoosted ==
    \E scope \in Scopes, keyword \in Terms, score \in Scores, engine \in EngineBehaviours :
        updateDomainBoostedKeywords(scope, keyword, score, engine)

----------------------------------------------------------------------------
(* listProducts: the query compiler *)

\* JavaScript truthiness of an optional number: undefined and 0 are falsy
TruthyNum(o) == IsDef(o) /\ Val(o) # 0

\* o && o.length, for an optional array o
NonEmptyArray(o) == IsDef(o) /\ Len(Val(o)) > 0

\* query clauses
Match(field, value) == [clause |-> "match", field |-> field, value |-> value]
MatchPhrasePrefix(field, value) ==
    [clause |-> "match_phrase_prefix", field |-> field, value |-> value]
Term(field, value) == [clause |-> "term", field |-> field, value |-> value]
TermsOf(field, values) == [clause |-> "terms", field |-> field, values |-> values]
\* a bound left undefined is dropped when the request is serialized
Range(field, op, bound) == [clause |-> "range", field |-> field, op |-> op, bound |-> bound]
NestedMust(path, query) == [clause |-> "nested", path |-> path, must |-> query]
ShouldOf(should) == [clause |-> "bool", should |-> should, minimum_should_match |-> 1]

\* the two nested matches of every SKU, in input order
RECURSIVE SkuClauses(_)
SkuClauses(skus) ==
    IF skus = <<>> THEN <<>>
    ELSE << NestedMust("byStore", Match("byStore.sku", toLowerCase(skus[1]))),
            NestedMust("byStore.children", Match("byStore.children.sku", toLowerCase(skus[1]))) >>
         \o SkuClauses(Tail(skus))

\* aggregation requests
TermsAgg(name, field) == [name |-> name, agg |-> "terms", field |-> field]
MaxAgg(name, field) == [name |-> name, agg |-> "max", field |-> field]
MinAgg(name, field) == [name |-> name, agg |-> "min", field |-> field]

SortEntry(field, dir) == [field |-> field, dir |-> dir]

S_createdAt == <<"c","r","e","a","t","e","d","A","t">>
S_price == <<"p","r","i","c","e">>
S_actualMinPrice == <<"a","c","t","u","a","l","M","i","n","P","r","i","c","e">>
S_discountPercent == <<"d","i","s","c","o","u","n","t","P","e","r","c","e","n","t">>
S_id == <<"i","d">>

\* the alias a sortBy token selects: <<field>>, or <<>> for an unknown token
SortAliasCaseSensitive(sortBy) ==
    IF Contains(sortBy, S_createdAt) THEN Def(S_createdAt)
    ELSE IF Contains(sortBy, S_price) THEN Def(S_actualMinPrice)
    ELSE IF Contains(sortBy, S_discountPercent) THEN Def(S_discountPercent)
    ELSE IF Contains(sortBy, S_id) THEN Def(S_id)
    ELSE Undefined
SortAlias(sortBy) ==
    IF TestIgnoreCase(S_createdAt, sortBy) THEN Def(S_createdAt)
    ELSE IF TestIgnoreCase(S_price, sortBy) THEN Def(S_actualMinPrice)
    ELSE IF TestIgnoreCase(S_discountPercent, sortBy) THEN Def(S_discountPercent)
    ELSE IF TestIgnoreCase(S_id, sortBy) THEN Def(S_id)
    ELSE Undefined

\* the direction of the explicit sort entry
SortDirAscending(sortBy) == "asc"
SortDir(sortBy) == IF sortBy[1] = "-" THEN "desc" ELSE "asc"

UnknownSort(sortBy) ==
    KobpError("userInput", "badRequest", <<"Unknown sort by option: ", sortBy>>, "")

\* the brand facet and the brand filters
BrandPinKeepsFacet(opts) ==
    [filters |-> IF TruthyStr(opts.brandId)
                 THEN <<Term("annotatedBrand", Val(opts.brandId))>> ELSE <<>>,
     agg |-> {TermsAgg("brands", "annotatedBrand")}]
BrandPin(opts) ==
    [filters |-> IF TruthyStr(opts.brandId)
                 THEN <<Term("annotatedBrand", Val(opts.brandId))>> ELSE <<>>,
     agg |-> IF TruthyStr(opts.brandId) THEN {}
             ELSE {TermsAgg("brands", "annotatedBrand")}]

\* the color-swatch facet
AggColorSwatchAlways(filterableAttributeSlugs) == {TermsAgg("colorSwatch", "colorSlugs")}
AggColorSwatch(filterableAttributeSlugs) ==
    IF "colorSwatch" \in filterableAttributeSlugs
    THEN {TermsAgg("colorSwatch", "colorSlugs")} ELSE {}

BrandSet(opts) ==
    IF NonEmptyArray(opts.brands)
    THEN <<TermsOf("annotatedBrand", Val(opts.brands))>> ELSE <<>>

\* the bool node: a section is present only when it has clauses
BoolNode(queryShould, queryMust, queryBoolFilters) ==
    [should |-> IF Len(queryShould) > 0 THEN Def(queryShould) ELSE Undefined,
     must |-> IF Len(queryMust) > 0 THEN Def(queryMust) ELSE Undefined,
     filter |-> IF Len(queryBoolFilters) > 0 THEN Def(queryBoolFilters) ELSE Undefined]

\* lodash isEmpty of the bool node
IsEmptyNode(node) == ~IsDef(node.should) /\ ~IsDef(node.must) /\ ~IsDef(node.filter)

QueryNode(node) ==
    IF IsEmptyNode(node) THEN [kind |-> "query_string", query |-> "*", bool |-> node]
    ELSE [kind |-> "bool", query |-> "", bool |-> node]

\* the body of listProducts up to the engine call: the request body, or the
\* error thrown on the way, and the sortBy field as the call leaves it
CompileProducts(opts, filterableAttributeSlugs) ==
    LET mustSkus == IF NonEmptyArray(opts.skus)
                    THEN <<ShouldOf(SkuClauses(Val(opts.skus)))>> ELSE <<>>
        shouldKeyword == IF TruthyStr(opts.keyword)
                         THEN << MatchPhrasePrefix("title.th", Val(opts.keyword)),
                                 MatchPhrasePrefix("title.en", Val(opts.keyword)) >>
                         ELSE <<>>
        suggestProducts == IF TruthyStr(opts.keyword)
                           THEN Def([prefix |-> Val(opts.keyword),
                                     fields |-> <<"titleSuggest.en", "titleSuggest.th">>,
                                     size |-> 5])
                           ELSE Undefined
        shouldCategories == IF NonEmptyArray(opts.categories)
                            THEN [i \in 1..Len(Val(opts.categories)) |->
                                     Match("categorySlugs", Val(opts.categories)[i])]
                            ELSE <<>>
        mustColor == IF NonEmptyArray(opts.color)
                     THEN <<ShouldOf([i \in 1..Len(Val(opts.color)) |->
                                         Match("colorSwatchs", Val(opts.color)[i])])>>
                     ELSE <<>>
        mustPrice == IF TruthyNum(opts.minPrice) \/ TruthyNum(opts.maxPrice)
                     THEN << Range("actualMinPrice", "gte", opts.minPrice),
                             Range("actualMinPrice", "lte", opts.maxPrice) >>
                     ELSE <<>>
        filterMall == IF TruthyStr(opts.mallId)
                      THEN <<NestedMust("byStore", Match("byStore.mallId", Val(opts.mallId)))>>
                      ELSE <<>>
        brand == BrandPin(opts)
        filterCategory == IF TruthyStr(opts.category)
                          THEN <<Term("categorySlugs", Val(opts.category))>> ELSE <<>>
        aggCategory == IF TruthyStr(opts.category) THEN {}
                       ELSE {TermsAgg("categorySlugs", "categorySlugs")}
        aggColorSwatch == AggColorSwatch(filterableAttributeSlugs)
        queryShould == shouldKeyword \o shouldCategories
        queryMust == mustSkus \o mustColor \o mustPrice
        queryBoolFilters == filterMall \o brand.filters \o filterCategory \o BrandSet(opts)
        hasSort == TruthyStr(opts.sortBy)
        sortDir == IF hasSort THEN SortDir(Val(opts.sortBy)) ELSE "asc"
        alias == IF hasSort THEN SortAlias(Val(opts.sortBy)) ELSE Undefined
        sortNode == <<SortEntry(<<"_","s","c","o","r","e">>, "desc")>>
                    \o (IF IsDef(alias) THEN <<SortEntry(Val(alias), sortDir)>> ELSE <<>>)
                    \o <<SortEntry(S_id, "asc")>>
        cursor == IF TruthyStr(opts.nextToken) THEN DecodeCursor(Val(opts.nextToken))
                  ELSE Undefined
        requestBody ==
            [size |-> opts.size,
             query |-> QueryNode(BoolNode(queryShould, queryMust, queryBoolFilters)),
             suggest |-> suggestProducts,
             sort |-> sortNode,
             aggs |-> brand.agg \cup {MaxAgg("priceMax", "priceMax"), MinAgg("priceMin", "priceMin")}
                        \cup aggCategory \cup aggColorSwatch,
             search_after |-> cursor]
    IN IF hasSort /\ ~IsDef(alias)
       THEN [thrown |-> Def(UnknownSort(Val(opts.sortBy))), request |-> Undefined,
             sortBy |-> opts.sortBy]
       ELSE IF TruthyStr(opts.nextToken) /\ ~IsDef(cursor)
       THEN [thrown |-> Def(SyntaxError), request |-> Undefined,
             sortBy |-> IF hasSort THEN alias ELSE opts.sortBy]
       ELSE [thrown |-> Undefined, request |-> Def(requestBody),
             sortBy |-> IF hasSort THEN alias ELSE opts.sortBy]

----------------------------------------------------------------------------
(* listProducts and listBrands: the engine, the result, the calls *)

PRODUCT_INDEX == "products"
BRAND_INDEX == "brands"

\* size of every listBrands request
BRAND_PAGE_SIZE == 24

S_score == <<"_","s","c","o","r","e">>

\* the engine rejects a search_after that is not an array with one value
\* per sort entry
SearchAfterRejected(request) ==
    /\ IsDef(request.search_after)
    /\ \/ Val(request.search_after).t # "arr"
       \/ Len(Val(request.search_after).arr) # Len(request.sort)

\* client.search: the engine's failure if any, else the number of hits and
\* the sort tuple of the last one
EngineSearch(request, engine) ==
    IF IsDef(engine.fault) THEN [error |-> engine.fault, n |-> 0, lastSort |-> Undefined]
    ELSE IF SearchAfterRejected(request)
    THEN [error |-> Def(IllegalArgument), n |-> 0, lastSort |-> Undefined]
    ELSE [error |-> Undefined, n |-> engine.n, lastSort |-> engine.lastSort]

\* sort tuples the engine reports for a sort directive list: one value per
\* entry, numbers for the score and the numeric fields, strings for id
SortTuples(sort) ==
    { [i \in 1..Len(sort) |->
          IF sort[i].field = S_id THEN JStr(id)
          ELSE IF sort[i].field = S_score THEN JNum(1)
          ELSE JNum(250)] : id \in { <<"p","1">>, <<"7">> } }

\* what the engine may do with a request: fail, or answer with a number of
\* hits out of ns, the last one with or without its sort tuple
Engines(ns, sort) ==
    [fault : {Undefined}, n : {0}, lastSort : {Undefined}]
    \cup [fault : {Undefined}, n : ns \ {0}, lastSort : {Def(t) : t \in SortTuples(sort)}]
    \cup [fault : {Undefined}, n : ns \ {0}, lastSort : {Undefined}]
    \cup [fault : {Def(ConnectionError)}, n : {0}, lastSort : {Undefined}]

\* an engine that has no matching document, or is down
QuietEngines ==
    [fault : {Undefined, Def(ConnectionError)}, n : {0}, lastSort : {Undefined}]

SortMissing == KobpError("server", "badGateway", "Sort is missing from query result!", "")

\* the hits.map of both list operations: the next token is taken from the
\* last hit when the number of hits equals options.size
NextToken(size, response) ==
    IF response.n = 0 \/ response.n # size THEN [thrown |-> Undefined, nextToken |-> Undefined]
    ELSE IF ~IsDef(response.lastSort) THEN [thrown |-> Def(SortMissing), nextToken |-> Undefined]
    ELSE [thrown |-> Undefined, nextToken |-> Def(EncodeCursor(Val(response.lastSort)))]

\* the catch clause of listProducts and of listBrands
ListCatch(error) == ThrowElasticSearchError(error)

\* a call after the request was compiled
Finish(size, request, engine) ==
    LET response == EngineSearch(request, engine)
        page == NextToken(size, response)
    IN IF IsDef(response.error) THEN ListCatch(Val(response.error))
       ELSE IF IsDef(page.thrown) THEN ListCatch(Val(page.thrown))
       ELSE Returned([nextToken |-> page.nextToken, items |-> response.n,
                      lastSort |-> response.lastSort])

EmptyOptions(size) ==
    [keyword |-> Undefined, nextToken |-> Undefined, size |-> size, categories |-> Undefined,
     minPrice |-> Undefined, maxPrice |-> Undefined, brands |-> Undefined, sortBy |-> Undefined,
     skus |-> Undefined, color |-> Undefined, brandId |-> Undefined, mallId |-> Undefined,
     category |-> Undefined]

NoListCall ==
    [op |-> "none", entry |-> EmptyOptions(1), facets |-> {}, request |-> Undefined,
     thrown |-> Undefined, outcome |-> Returned("undefined")]

listProducts(filterableAttributeSlugs, engine) ==
    LET c == CompileProducts(options, filterableAttributeSlugs)
    IN /\ options' = [options EXCEPT !.sortBy = c.sortBy]
       /\ listCall' = [op |-> "listProducts", entry |-> options,
                       facets |-> filterableAttributeSlugs, request |-> c.request,
                       thrown |-> c.thrown,
                       outcome |-> IF IsDef(c.thrown) THEN ListCatch(Val(c.thrown))
                                   ELSE Finish(options.size, Val(c.request), engine)]
       /\ UNCHANGED <<cursorOf, termVars, configVars, bulkVars>>

\* lodash isEmpty of a parsed cursor, and its truthiness
IsEmptyValue(j) ==
    \/ j.t \in {"num", "bool", "null", "obj"}
    \/ (j.t = "arr" /\ Len(j.arr) = 0)
    \/ (j.t = "str" /\ Len(j.str) = 0)
TruthyValue(j) ==
    ~ \/ j.t = "null"
      \/ (j.t = "num" /\ j.num = 0)
      \/ (j.t = "bool" /\ ~j.bool)
      \/ (j.t = "str" /\ j.str = <<>>)

\* the body of listBrands up to the engine call
CompileBrands(opts) ==
    LET cursor == IF TruthyStr(opts.nextToken) THEN DecodeCursor(Val(opts.nextToken))
                  ELSE Def(JEmptyObject)
        requestBody ==
            [size |-> BRAND_PAGE_SIZE,
             query |-> IF TruthyStr(opts.keyword)
                       THEN MatchPhrasePrefix("title", Val(opts.keyword))
                       ELSE [clause |-> "match_all"],
             suggest |-> IF TruthyStr(opts.keyword)
                         THEN Def([prefix |-> Val(opts.keyword), fields |-> <<"titleSuggest">>,
                                   size |-> 5])
                         ELSE Undefined,
             sort |-> <<SortEntry(S_score, "desc"), SortEntry(S_id, "asc")>>,
             search_after |-> IF IsDef(cursor) /\ TruthyValue(Val(cursor))
                                 /\ ~IsEmptyValue(Val(cursor))
                              THEN cursor ELSE Undefined]
    IN IF ~IsDef(cursor) THEN [thrown |-> Def(SyntaxError), request |-> Undefined]
       ELSE [thrown |-> Undefined, request |-> Def(requestBody)]

listBrands(engine) ==
    LET c == CompileBrands(options)
    IN /\ listCall' = [op |-> "listBrands", entry |-> options, facets |-> {},
                       request |-> c.request, thrown |-> c.thrown,
                       outcome |-> IF IsDef(c.thrown) THEN ListCatch(Val(c.thrown))
                                   ELSE Finish(options.size, Val(c.request), engine)]
       /\ UNCHANGED <<options, cursorOf, termVars, configVars, bulkVars>>

\* values the callers give the option fields
N_bag == <<"b","a","g">>
N_shoes == <<"s","h","o","e","s">>
N_bags == <<"b","a","g","s">>
N_red == <<"r","e","d">>
N_nk == <<"n","k">>
N_ad == <<"a","d">>
N_m1 == <<"m","1">>
N_sku == <<"S","K","U","1">>

SortTokens ==
    { S_price, <<"-","P","r","i","c","e">>, S_createdAt, <<"c","r","e","a","t","e","d","A","t","_","p","r","i","c","e">>, S_discountPercent, <<"-","i","d">>,
      <<"w","i","d","t","h">>, <<"n","a","m","e">> }

\* tokens a caller may send without having received them
ForeignTokens ==
    { <<"a","b","c">>,                                    \* not the base64 of any JSON text
      Base64Encode(Utf8Bytes(<<"5">>)),         \* a JSON number
      Base64Encode(Utf8Bytes(<<"{","}">>)),      \* a JSON object
      Base64Encode(Utf8Bytes(<<"[","1",",">>)),  \* a truncated array
      EncodeCursor(<<JNum(1)>>) }               \* an array, one value short

FilterValues ==
    [ keyword |-> {Def(N_bag)},
      skus |-> {Def(<<N_sku>>)},
      categories |-> {Def(<<N_shoes>>), Def(<<N_shoes, N_bags>>)},
      color |-> {Def(<<N_red>>)},
      minPrice |-> {Def(0), Def(100)},
      maxPrice |-> {Def(0), Def(500)},
      mallId |-> {Def(N_m1)},
      brandId |-> {Def(<<>>), Def(N_nk)},
      category |-> {Def(N_shoes)},
      brands |-> {Def(<<>>), Def(<<N_nk>>), Def(<<N_nk, N_ad>>)},
      sortBy |-> {Def(t) : t \in SortTokens},
      nextToken |-> {Def(t) : t \in ForeignTokens} ]

FacetSlugSets == { {}, {"colorSwatch"} }

NumberSet(opts) == Cardinality({f \in DOMAIN FilterValues : IsDef(opts[f])})

\* the caller makes a fresh options object
NewOptions ==
    \E size \in 1..MaxSize :
        /\ options' = EmptyOptions(size)
        /\ cursorOf' = Undefined
        /\ listCall' = NoListCall
        /\ UNCHANGED <<termVars, configVars, bulkVars>>

setOption(field, value) ==
    /\ ~IsDef(options[field])
    /\ options' = [options EXCEPT ![field] = value]
    /\ cursorOf' = IF field = "nextToken" THEN Undefined ELSE cursorOf
    /\ listCall' = NoListCall
    /\ UNCHANGED <<termVars, configVars, bulkVars>>

\* the caller sets one more filter
SetOption ==
    \E field \in DOMAIN FilterValues \ {"nextToken"} : \E value \in FilterValues[field] :
        /\ NumberSet(options) < MaxSet
        /\ setOption(field, value)

\* the caller sets a field that matters to paging
SetPageOption ==
    \E field \in {"keyword", "sortBy", "nextToken"} : \E value \in FilterValues[field] : setOption(field, value)

\* the caller asks for the page after the one just received
NextPage ==
    /\ listCall.op # "none"
    /\ listCall.outcome.kind = "returned"
    /\ IsDef(listCall.outcome.value.nextToken)
    /\ options' = [options EXCEPT !.nextToken = listCall.outcome.value.nextToken]
    /\ cursorOf' = Def([sort |-> Val(listCall.outcome.value.lastSort), op |-> listCall.op])
    /\ listCall' = NoListCall
    /\ UNCHANGED <<termVars, configVars, bulkVars>>

\* listProducts with no matching document or the engine down
CompileProductsCall ==
    \E facets \in FacetSlugSets, engine \in QuietEngines : listProducts(facets, engine)

\* listProducts against an engine that answers with at most the requested
\* number of hits
ListProductsPage ==
    LET c == CompileProducts(options, {})
        sort == IF IsDef(c.request) THEN Val(c.request).sort ELSE <<>>
    IN \E engine \in Engines(0..options.size, sort) : listProducts({}, engine)

\* listBrands against an engine that answers with at most BRAND_PAGE_SIZE hits
ListBrandsPage ==
    \E engine \in Engines((0..MaxSize) \cup {BRAND_PAGE_SIZE},
                          <<SortEntry(S_score, "desc"), SortEntry(S_id, "asc")>>) :
        listBrands(engine)

\* the product documents of the index, as the engine has analyzed them
Catalog ==
    { [id |-> <<"p","1">>, title |-> [th |-> <<"b","a","g","s">>, en |-> <<"B","a","g">>],
       categorySlugs |-> {N_bags}, colorSwatchs |-> {N_red}, annotatedBrand |-> N_nk,
       actualMinPrice |-> 250, mallId |-> N_m1, skus |-> {<<"s","k","u","1">>},
       childSkus |-> {}],
      [id |-> <<"p","2">>, title |-> [th |-> <<"b","a","g">>, en |-> <<"b","a","g">>],
       categorySlugs |-> {N_shoes}, colorSwatchs |-> {}, annotatedBrand |-> N_ad,
       actualMinPrice |-> 0, mallId |-> N_m1, skus |-> {}, childSkus |-> {<<"s","k","u","1">>}],
      [id |-> <<"p","3">>, title |-> [th |-> <<"c","a","p">>, en |-> <<"c","a","p">>],
       categorySlugs |-> {N_shoes, N_bags}, colorSwatchs |-> {N_red}, annotatedBrand |-> N_nk,
       actualMinPrice |-> 600, mallId |-> <<"m","2">>, skus |-> {}, childSkus |-> {}],
      [id |-> <<"7">>, title |-> [th |-> <<"c","a","p">>, en |-> <<"h","a","t">>],
       categorySlugs |-> {}, colorSwatchs |-> {}, annotatedBrand |-> N_ad,
       actualMinPrice |-> 100, mallId |-> <<"m","2">>, skus |-> {}, childSkus |-> {}] }

\* the values a document holds in a keyword field
FieldValues(doc, field) ==
    IF field = "categorySlugs" THEN doc.categorySlugs
    ELSE IF field = "colorSwatchs" THEN doc.colorSwatchs
    ELSE IF field = "annotatedBrand" THEN {doc.annotatedBrand}
    ELSE IF field = "byStore.mallId" THEN {doc.mallId}
    ELSE IF field = "byStore.sku" THEN doc.skus
    ELSE IF field = "byStore.children.sku" THEN doc.childSkus
    ELSE {}

\* the engine's verdict on a document for one clause that holds no clauses
SatisfiesLeaf(doc, c) ==
    IF c.clause = "match_phrase_prefix"
    THEN LET text == IF c.field = "title.th" THEN doc.title.th ELSE doc.title.en
         IN StartsWith(toLowerCase(text), toLowerCase(c.value))
    ELSE IF c.clause \in {"match", "term"} THEN c.value \in FieldValues(doc, c.field)
    ELSE IF c.clause = "terms"
    THEN \E i \in 1..Len(c.values) : c.values[i] \in FieldValues(doc, c.field)
    ELSE IF c.clause = "nested" THEN c.must.value \in FieldValues(doc, c.must.field)
    ELSE IF c.clause = "range"
    THEN \/ ~IsDef(c.bound)
         \/ (c.op = "gte" /\ doc.actualMinPrice >= Val(c.bound))
         \/ (c.op = "lte" /\ doc.actualMinPrice =< Val(c.bound))
    ELSE FALSE

\* a { bool: { should, minimum_should_match: 1 } } clause asks for one of
\* its clauses
SatisfiesClause(doc, c) ==
    IF c.clause = "bool"
    THEN \E i \in 1..Len(c.should) : SatisfiesLeaf(doc, c.should[i])
    ELSE SatisfiesLeaf(doc, c)

\* the engine's verdict on a document for the query node: every must and
\* filter clause, and one should clause when the should section is present
\* (minimum_should_match: 1); query_string '*' takes every document
Satisfies(doc, query) ==
    IF query.kind = "query_string" THEN TRUE
    ELSE /\ IsDef(query.bool.should) =>
               \E i \in 1..Len(Val(query.bool.should)) :
                   SatisfiesClause(doc, Val(query.bool.should)[i])
         /\ IsDef(query.bool.must) =>
               \A i \in 1..Len(Val(query.bool.must)) :
                   SatisfiesClause(doc, Val(query.bool.must)[i])
         /\ IsDef(query.bool.filter) =>
               \A i \in 1..Len(Val(query.bool.filter)) :
                   SatisfiesClause(doc, Val(query.bool.filter)[i])

Hits(request) == {doc \in Catalog : Satisfies(doc, request.query)}

\* the engine over the catalog: at most size of the matching documents
CatalogEngines(request) ==
    LET found == Cardinality(Hits(request))
        n == IF found < request.size THEN found ELSE request.size
    IN [fault : {Undefined}, n : {n},
        lastSort : IF n = 0 THEN {Undefined} ELSE {Def(t) : t \in SortTuples(request.sort)}]

\* listProducts against the engine holding the catalog
ListProductsOverCatalog ==
    LET c == CompileProducts(options, {})
    IN \E engine \in (IF IsDef(c.request) THEN CatalogEngines(Val(c.request))
                      ELSE QuietEngines) :
           listProducts({}, engine)

----------------------------------------------------------------------------
(* Index configuration *)

TargetIndices == {"products", "brands"}

\* the engine calls configIndex makes, in the order of the code
ConfigSteps == {"exists", "delete", "create", "close", "putSettings", "putMapping", "open"}

\* the engine failures of one run: the call of the try block that fails if
\* it is reached, whether the final open fails, and the error the engine
\* then answers with
ConfigFaults ==
    [first : (ConfigSteps \ {"open"}) \cup {"none"}, open : BOOLEAN,
     error : {ConnectionError, IllegalArgument}]

NoIndex == [exists |-> FALSE, open |-> FALSE]

\* the catch clause of configIndex
ConfigCatch(error) ==
    Threw(KobpError("server", "badGateway",
                    "Unable to perform Setting Index on ES: " \o NormalizeESErrorMessage(error),
                    ""))

\* the catch clause of putSettings and of putMapping
PutCatch(error) == KobpError("server", "badGateway", NormalizeESErrorMessage(error), "")

\* the try block of configIndex: the index state it leaves, the engine
\* calls made, and <<>> when it returned or <<error>> when it threw
ConfigTry(idx, target, destroyExistingIndex, faults) ==
    LET F(step) == faults.first = step IN
    IF F("exists") THEN [idx |-> idx, calls |-> <<"exists">>, thrown |-> Def(faults.error)]
    ELSE IF idx.exists THEN
        IF destroyExistingIndex THEN
            IF F("delete")
            THEN [idx |-> idx, calls |-> <<"exists", "delete">>, thrown |-> Def(faults.error)]
            ELSE [idx |-> NoIndex, calls |-> <<"exists", "delete">>,
                  thrown |-> Def(KobpError("server", "internalServerError",
                                           "Index: " \o target \o " already exists.", ""))]
        ELSE [idx |-> idx, calls |-> <<"exists">>,
              thrown |-> Def(KobpError("server", "internalServerError",
                                       "Index: " \o target \o " already exists.", ""))]
    ELSE IF F("create")
    THEN [idx |-> idx, calls |-> <<"exists", "create">>, thrown |-> Def(faults.error)]
    ELSE IF F("close")
    THEN [idx |-> [exists |-> TRUE, open |-> TRUE], calls |-> <<"exists", "create", "close">>,
          thrown |-> Def(faults.error)]
    ELSE IF F("putSettings")
    THEN [idx |-> [exists |-> TRUE, open |-> FALSE],
          calls |-> <<"exists", "create", "close", "putSettings">>,
          thrown |-> Def(PutCatch(faults.error))]
    ELSE IF F("putMapping")
    THEN [idx |-> [exists |-> TRUE, open |-> FALSE],
          calls |-> <<"exists", "create", "close", "putSettings", "putMapping">>,
          thrown |-> Def(PutCatch(faults.error))]
    ELSE [idx |-> [exists |-> TRUE, open |-> FALSE],
          calls |-> <<"exists", "create", "close", "putSettings", "putMapping">>,
          thrown |-> Undefined]

\* the finally clause: indices.open; an error it raises replaces whatever
\* the try and catch clauses were about to deliver
ConfigFinally(t, pending, faults) ==
    IF faults.open
    THEN [idx |-> t.idx, calls |-> Append(t.calls, "open"), outcome |-> Threw(faults.error)]
    ELSE IF ~t.idx.exists
    THEN [idx |-> t.idx, calls |-> Append(t.calls, "open"), outcome |-> Threw(IndexNotFound)]
    ELSE [idx |-> [exists |-> TRUE, open |-> TRUE], calls |-> Append(t.calls, "open"),
          outcome |-> pending]

configIndex(target, destroyExistingIndex, faults) ==
    LET t == ConfigTry(indexState[target], target, destroyExistingIndex, faults)
        pending == IF IsDef(t.thrown) THEN ConfigCatch(Val(t.thrown))
                   ELSE Returned("indexSettings")
        f == ConfigFinally(t, pending, faults)
    IN /\ indexState' = [indexState EXCEPT ![target] = f.idx]
       /\ configCall' = [op |-> "configIndex", target |-> target,
                         destroyExistingIndex |-> destroyExistingIndex,
                         existed |-> indexState[target].exists,
                         faults |-> faults, thrown |-> t.thrown,
                         calls |-> f.calls, outcome |-> f.outcome]
       /\ UNCHANGED <<termVars, listVars, bulkVars>>

ConfigIndex ==
    \E target \in TargetIndices, destroy \in BOOLEAN, faults \in ConfigFaults :
        configIndex(target, destroy, faults)

----------------------------------------------------------------------------
(* Bulk mutations *)

\* cerialize's Serialize of a product or a brand: the raw document carries
\* the record's fields under their own keys
Serialize(model) == [k \in DOMAIN model |-> model[k]]

\* the two entries a bulk mutation makes of one record
UpdateHeader(id, index) == [update |-> [_id |-> id, _index |-> index]]
\* the stock mutations carry no upsert document
ScriptedBody(scriptSource, doc, fallback) ==
    [script |-> [source |-> scriptSource, lang |-> "painless", params |-> doc],
     upsert |-> fallback]

\* Array.prototype.map in place of flatMap: one entry, a pair, per record
MapPairs(pairs) == pairs

\* Array.prototype.flatMap: the callback's arrays, concatenated in input order
RECURSIVE FlatMap(_)
FlatMap(pairs) ==
    IF pairs = <<>> THEN <<>> ELSE pairs[1] \o FlatMap(Tail(pairs))

\* engine failures of a bulk request
BulkEngines == {Undefined, Def(ConnectionError), Def(IllegalArgument)}

\* reading items[0].update of a response that has no items
TypeError ==
    [class |-> "TypeError",
     message |-> "Cannot read properties of undefined (reading 'update')",
     meta |-> Undefined]

\* client.bulk inside try / catch: the error reaches _throwElasticSearchError;
\* the stock mutations also read items[0].update.error of the response
BulkApply(body, engine, readsFirstItem) ==
    IF IsDef(engine) THEN ThrowElasticSearchError(Val(engine))
    ELSE IF readsFirstItem /\ Len(body) = 0 THEN ThrowElasticSearchError(TypeError)
    ELSE Returned(TRUE)

NoBulkCall == [body |-> <<>>, op |-> "none", outcome |-> Returned(TRUE), input |-> <<>>]

BulkCall(op, input, body, outcome) ==
    /\ bulkCall' = [body |-> body, op |-> op, outcome |-> outcome, input |-> input]
    /\ UNCHANGED <<termVars, configVars, listVars>>

\* records the callers hand over; two records of one list may carry the
\* same identifier
ProductModels == [sku : {"SKU1", "SKU2"}, actualMinPrice : {100, 250}]
BrandModels == [id : {"nk", "ad"}, title : {"Nike", "Adidas"}]
StockLines == [indexId : {"SKU1", "SKU2"}, quantity : {1, 2}]

ListsOf(records) == UNION { [1..n -> records] : n \in 0..MaxRecords }

saveProducts ==
    \E data \in ListsOf(ProductModels), engine \in BulkEngines :
        LET body == FlatMap([i \in 1..Len(data) |->
                        LET rawDoc == Serialize(data[i])
                        IN << UpdateHeader(rawDoc.sku, PRODUCT_INDEX),
                              ScriptedBody("scriptSaveProducts", rawDoc, Def(rawDoc)) >>])
        IN BulkCall("saveProducts", data, body, BulkApply(body, engine, FALSE))

syncBrands ==
    \E brands \in ListsOf(BrandModels), engine \in BulkEngines :
        LET body == FlatMap([i \in 1..Len(brands) |->
                        LET rawDoc == Serialize(brands[i])
                        IN << UpdateHeader(rawDoc.id, BRAND_INDEX),
                              ScriptedBody("scriptSaveBrands", rawDoc, Def(rawDoc)) >>])
        IN BulkCall("syncBrands", brands, body, BulkApply(body, engine, FALSE))

updateStocks ==
    \E requestBody \in ListsOf(StockLines), engine \in BulkEngines :
        LET body == FlatMap([i \in 1..Len(requestBody) |->
                        << UpdateHeader(requestBody[i].indexId, PRODUCT_INDEX),
                           ScriptedBody("scriptUpdateStock", requestBody[i], Undefined) >>])
        IN BulkCall("updateStocks", requestBody, body, BulkApply(body, engine, TRUE))

reserveStocks ==
    \E requestBody \in ListsOf(StockLines), engine \in BulkEngines :
        LET body == FlatMap([i \in 1..Len(requestBody) |->
                        << UpdateHeader(requestBody[i].indexId, PRODUCT_INDEX),
                           ScriptedBody("scriptReserveStock", requestBody[i], Undefined) >>])
        IN BulkCall("reserveStocks", requestBody, body, BulkApply(body, engine, TRUE))

paidStocks ==
    \E requestBody \in ListsOf(StockLines), engine \in BulkEngines :
        LET body == FlatMap([i \in 1..Len(requestBody) |->
                        << UpdateHeader(requestBody[i].indexId, PRODUCT_INDEX),
                           ScriptedBody("scriptPaidStock", requestBody[i], Undefined) >>])
        IN BulkCall("paidStocks", requestBody, body, BulkApply(body, engine, TRUE))

expiredStocks ==
    \E requestBody \in ListsOf(StockLines), engine \in BulkEngines :
        LET body == FlatMap([i \in 1..Len(requestBody) |->
                        << UpdateHeader(requestBody[i].indexId, PRODUCT_INDEX),
                           ScriptedBody("scriptExpiredStock", requestBody[i], Undefined) >>])
        IN BulkCall("expiredStocks", requestBody, body, BulkApply(body, engine, TRUE))

cancelStocks ==
    \E requestBody \in ListsOf(StockLines), engine \in BulkEngines :
        LET body == FlatMap([i \in 1..Len(requestBody) |->
                        << UpdateHeader(requestBody[i].indexId, PRODUCT_INDEX),
                           ScriptedBody("scriptCancelStock", requestBody[i], Undefined) >>])
        IN BulkCall("cancelStocks", requestBody, body, BulkApply(body, engine, TRUE))

----------------------------------------------------------------------------
(* Specifications *)

Init ==
    /\ queryterms = {}
    /\ boostedterms = {}
    /\ tracked = {}
    /\ termCall = NoTermCall
    /\ indexState = [i \in TargetIndices |-> NoIndex]
    /\ configCall = [op |-> "none", target |-> "products", destroyExistingIndex |-> TRUE,
                     existed |-> FALSE, faults |-> [first |-> "none", open |-> FALSE, error |-> ConnectionError],
                     thrown |-> Undefined, calls |-> <<>>, outcome |-> Returned("undefined")]
    /\ options = EmptyOptions(1)
    /\ cursorOf = Undefined
    /\ listCall = NoListCall
    /\ bulkCall = NoBulkCall

NextTerms == TrackSearched \/ SetBoosted

SpecTerms == Init /\ [][NextTerms]_vars

NextConfig == ConfigIndex

SpecConfig == Init /\ [][NextConfig]_vars

\* the query compiler over combinations of filters
NextCompile == NewOptions \/ SetOption \/ CompileProductsCall

SpecCompile == Init /\ [][NextCompile]_vars

\* paging: cursors issued, passed back, and supplied by the caller
NextPaging == NewOptions \/ SetPageOption \/ NextPage \/ ListProductsPage \/ ListBrandsPage

SpecPaging == Init /\ [][NextPaging]_vars

\* the query compiler with the engine holding the catalog
NextCatalog == NewOptions \/ SetOption \/ ListProductsOverCatalog

SpecCatalog == Init /\ [][NextCatalog]_vars

\* the bulk mutations
NextBulk ==
    \/ saveProducts \/ syncBrands \/ updateStocks \/ reserveStocks
    \/ paidStocks \/ expiredStocks \/ cancelStocks

SpecBulk == Init /\ [][NextBulk]_vars

----------------------------------------------------------------------------
(* Term tracker: claims *)

BrandRestricted(scope) == IsDef(scope.brandId) /\ Val(scope.brandId) # <<>>

RECURSIVE SumHits(_)
SumHits(docs) ==
    IF docs = {} THEN 0
    ELSE LET d == CHOOSE x \in docs : TRUE IN d.hit + SumHits(docs \ {d})

DocsOf(index) == IF index = POPULAR_TERMS_INDEX THEN queryterms ELSE boostedterms

\* C7: after any sequence of acknowledged term writes each index holds
\* exactly one record per distinct (domain, lowercased term) written, two
\* writes address the same record id if and only if they have the same
\* domain and the same lowercased term, and the hit count of a popular-term
\* record is the number of tracked searches of its pair.
C7_OneRecordPerPair ==
    \A h \in tracked :
        /\ Cardinality({d \in DocsOf(h.index) : d.domain = h.domain /\ d.q = h.q}) = 1
        /\ \A g \in tracked :
              g.index = h.index => (g.id = h.id <=> (g.domain = h.domain /\ g.q = h.q))
        /\ h.index = POPULAR_TERMS_INDEX =>
              \A d \in queryterms : (d.domain = h.domain /\ d.q = h.q) => d.hit = h.n

\* C8: the domain a call resolves is a function of the scope alone: the
\* global domain for a scope without a brand restriction, "brand:<brandId>"
\* for a brand-restricted one, and never the global domain for the latter.
C8_ScopeResolution ==
    termCall.op # "none" =>
        /\ ~BrandRestricted(termCall.scope) => termCall.domain = <<"g","l","o","b","a","l">>
        /\ BrandRestricted(termCall.scope) =>
              /\ termCall.domain = <<"b","r","a","n","d",":">> \o Val(termCall.scope.brandId)
              /\ termCall.domain # <<"g","l","o","b","a","l">>

C8_Witness ==
    /\ termCall.op = "trackUserSearchedKeywords"
    /\ termCall.scope.brandId = Def(<<"N","K">>)
    /\ termCall.domain = <<"b","r","a","n","d",":","N","K">>
    /\ \E h \in tracked : h.domain = <<"g","l","o","b","a","l">>

\* C9: trackUserSearchedKeywords completes normally whatever the engine
\* answers to the update, a write conflict past the retry budget included,
\* and a failed update leaves no write behind.
C9_TrackNeverRaises ==
    termCall.op = "trackUserSearchedKeywords" =>
        /\ termCall.outcome.kind = "returned"
        /\ SumHits(queryterms) = SumN({h \in tracked : h.index = POPULAR_TERMS_INDEX})

C9_Witness ==
    /\ termCall.op = "trackUserSearchedKeywords"
    /\ termCall.error = Def(VersionConflict)
    /\ termCall.outcome.kind = "returned"

----------------------------------------------------------------------------
(* Index configuration: claims *)

\* C10: every failing configIndex call, whichever engine step fails, ends
\* in a ServerGatewayError that carries the normalized cause; no raw engine
\* exception escapes.
C10_ConfigFailuresWrapped ==
    (configCall.op = "configIndex" /\ configCall.outcome.kind = "threw") =>
        /\ IsServerGatewayError(configCall.outcome.error)
        /\ ~IsRawEngineError(configCall.outcome.error)
        /\ configCall.outcome.error.message =
              "Unable to perform Setting Index on ES: "
                  \o NormalizeESErrorMessage(Val(configCall.thrown))

\* C17: configIndex with destroyExistingIndex = true on an index that
\* exists, the engine failing no call of its own accord, deletes the index,
\* creates it, closes it, puts settings and mapping, reopens it and returns
\* the index settings; the index then exists and is open.
C17_DestroyThenRecreate ==
    (/\ configCall.op = "configIndex"
     /\ configCall.destroyExistingIndex
     /\ configCall.existed
     /\ configCall.faults.first = "none"
     /\ ~configCall.faults.open) =>
        /\ configCall.calls = <<"exists", "delete", "create", "close",
                                "putSettings", "putMapping", "open">>
        /\ configCall.outcome = Returned("indexSettings")
        /\ indexState[configCall.target] = [exists |-> TRUE, open |-> TRUE]

----------------------------------------------------------------------------
(* listProducts and listBrands: claims *)

InSeq(x, seq) == \E i \in 1..Len(seq) : seq[i] = x

Section(o) == IF IsDef(o) THEN Val(o) ELSE <<>>

Compiled == listCall.op = "listProducts" /\ IsDef(listCall.request)

Pinned(opts) == IsDef(opts.brandId) /\ Val(opts.brandId) # <<>>

HasBrandFacet(request) == \E a \in request.aggs : a.name = "brands"

\* C1: with a pinned brand the filter section of the compiled query holds
\* an exact term filter on that brand and no brand facet is requested; with
\* no pinned brand and a brand set of two or more ids the filter section
\* holds a terms filter over the set and the brand facet is requested.
C1_BrandPinAndBrandSet ==
    Compiled =>
        LET o == listCall.entry
            r == Val(listCall.request)
            filter == Section(r.query.bool.filter)
        IN /\ Pinned(o) =>
                /\ InSeq(Term("annotatedBrand", Val(o.brandId)), filter)
                /\ ~HasBrandFacet(r)
           /\ (~Pinned(o) /\ IsDef(o.brands) /\ Len(Val(o.brands)) >= 2) =>
                /\ InSeq(TermsOf("annotatedBrand", Val(o.brands)), filter)
                /\ HasBrandFacet(r)

C1_Witness ==
    /\ Compiled
    /\ Pinned(listCall.entry)
    /\ IsDef(listCall.entry.brands) /\ Len(Val(listCall.entry.brands)) >= 2
    /\ ~HasBrandFacet(Val(listCall.request))
    /\ Len(Section(Val(listCall.request).query.bool.filter)) = 2

\* C2: a listProducts call that returns fewer hits than options.size
\* returns no nextToken; one that returns options.size hits returns a
\* nextToken, and when the caller passes it back the search_after sent to
\* the engine is the sort tuple of the last hit of that page, values, order
\* and types alike.
C2_NextTokenRoundTrip ==
    /\ (listCall.op = "listProducts" /\ listCall.outcome.kind = "returned") =>
          LET v == listCall.outcome.value IN
          /\ v.items < listCall.entry.size => ~IsDef(v.nextToken)
          /\ v.items = listCall.entry.size => IsDef(v.nextToken)
    /\ (Compiled /\ IsDef(cursorOf)) =>
          Val(listCall.request).search_after = Def(JArr(Val(cursorOf).sort))

C2_Witness ==
    /\ Compiled
    /\ IsDef(cursorOf)
    /\ Val(cursorOf).op = "listProducts"
    /\ Len(Val(cursorOf).sort) = 3
    /\ Val(cursorOf).sort[3] = JStr(<<"7">>)
    /\ Val(listCall.request).search_after = Def(JArr(Val(cursorOf).sort))
    /\ listCall.outcome.kind = "returned"
    /\ listCall.outcome.value.items = listCall.entry.size
    /\ IsDef(listCall.outcome.value.nextToken)

\* a token that is the base64 of a serialized array
WellFormedCursor(token) ==
    IsDef(DecodeCursor(token)) /\ Val(DecodeCursor(token)).t = "arr"

\* C3: listProducts and listBrands called with a nextToken that is not a
\* well-formed cursor fail with an invalid-cursor client input error, never
\* with a server/gateway error, and never go on to search.
C3_MalformedCursorIsClientError ==
    (/\ listCall.op \in {"listProducts", "listBrands"}
     /\ IsDef(listCall.entry.nextToken)
     /\ Val(listCall.entry.nextToken) # <<>>
     /\ ~WellFormedCursor(Val(listCall.entry.nextToken))) =>
        /\ listCall.outcome.kind = "threw"
        /\ IsClientInputError(listCall.outcome.error)
        /\ ~IsServerGatewayError(listCall.outcome.error)
        /\ ~IsDef(listCall.request)

ContainsPrice(token) == Contains(toLowerCase(token), S_price)
ContainsCreatedAt(token) == Contains(toLowerCase(token), toLowerCase(S_createdAt))

SortedOn(field) ==
    /\ Compiled
    /\ Len(Val(listCall.request).sort) = 3
    /\ Val(listCall.request).sort[2].field = field

\* C4 as stated: every sortBy token containing "price" in any letter case
\* compiles to an explicit sort entry on actualMinPrice, whatever else the
\* token contains.
C4_PriceAlwaysActualMinPrice ==
    (/\ listCall.op = "listProducts"
     /\ IsDef(listCall.entry.sortBy)
     /\ ContainsPrice(Val(listCall.entry.sortBy))) => SortedOn(S_actualMinPrice)

\* C4 as amended: every sortBy token containing "price" in any letter case
\* and not containing "createdAt" in any letter case compiles to an
\* explicit sort entry on actualMinPrice.
C4_PriceWithoutCreatedAt ==
    (/\ listCall.op = "listProducts"
     /\ IsDef(listCall.entry.sortBy)
     /\ ContainsPrice(Val(listCall.entry.sortBy))
     /\ ~ContainsCreatedAt(Val(listCall.entry.sortBy))) => SortedOn(S_actualMinPrice)

C4_Witness ==
    /\ listCall.op = "listProducts"
    /\ listCall.entry.sortBy = Def(<<"-","P","r","i","c","e">>)
    /\ SortedOn(S_actualMinPrice)
    /\ Val(listCall.request).sort[2].dir = "desc"

\* a token is a recognized alias when, its leading '-' aside, it is
\* createdAt, discountPercent or id, or when it contains "price"
Recognized(token) ==
    LET name == IF token # <<>> /\ token[1] = "-" THEN Tail(token) ELSE token
    IN name \in {S_createdAt, S_discountPercent, S_id} \/ ContainsPrice(token)

\* C5: a sortBy token that is not a recognized alias makes listProducts
\* fail with a ClientInputError naming the token; no sort field is chosen
\* silently and the caller never sees a server/gateway error.
C5_UnknownSortIsClientError ==
    (/\ listCall.op = "listProducts"
     /\ IsDef(listCall.entry.sortBy)
     /\ Val(listCall.entry.sortBy) # <<>>
     /\ ~Recognized(Val(listCall.entry.sortBy))) =>
        /\ ~IsDef(listCall.request)
        /\ listCall.outcome.kind = "threw"
        /\ IsClientInputError(listCall.outcome.error)
        /\ ~IsServerGatewayError(listCall.outcome.error)
        /\ listCall.outcome.error.message
              = <<"Unknown sort by option: ", Val(listCall.entry.sortBy)>>

\* a filter is supplied when its field is given a non-empty string, a
\* non-empty array or any number
SuppliedText(o) == IsDef(o) /\ Val(o) # <<>>
SuppliedNumber(o) == IsDef(o)

AnySupplied(o) ==
    \/ SuppliedText(o.keyword) \/ SuppliedText(o.skus) \/ SuppliedText(o.categories)
    \/ SuppliedText(o.color) \/ SuppliedNumber(o.minPrice) \/ SuppliedNumber(o.maxPrice)
    \/ SuppliedText(o.mallId) \/ SuppliedText(o.brandId) \/ SuppliedText(o.category)
    \/ SuppliedText(o.brands)

\* C6: the compiled query is a boolean query with a non-empty should, must
\* or filter section, or the match-everything query, and it is the
\* match-everything query exactly when no keyword and no filter is
\* supplied.
C6_MatchAllIffNoFilter ==
    Compiled =>
        LET q == Val(listCall.request).query IN
        /\ q.kind \in {"bool", "query_string"}
        /\ q.kind = "bool" =>
              \/ Len(Section(q.bool.should)) > 0
              \/ Len(Section(q.bool.must)) > 0
              \/ Len(Section(q.bool.filter)) > 0
        /\ q.kind = "query_string" <=> ~AnySupplied(listCall.entry)

HasAgg(request, a) == a \in request.aggs
HasAggNamed(request, name) == \E a \in request.aggs : a.name = name

\* C12: every compiled request asks for the priceMin and priceMax
\* aggregations, whatever filters and pins are present, and asks for the
\* color-swatch aggregation exactly when the requested facet slugs contain
\* 'colorSwatch', with or without a color filter.
C12_PriceFloorAndColorFacet ==
    Compiled =>
        LET r == Val(listCall.request) IN
        /\ HasAgg(r, MinAgg("priceMin", "priceMin"))
        /\ HasAgg(r, MaxAgg("priceMax", "priceMax"))
        /\ HasAggNamed(r, "colorSwatch") <=> "colorSwatch" \in listCall.facets
        /\ HasAggNamed(r, "colorSwatch") => HasAgg(r, TermsAgg("colorSwatch", "colorSlugs"))

\* a color filter and a brand pin are set, the color-swatch facet is not
\* asked for, and the price aggregations are still requested
C12_Witness ==
    /\ Compiled
    /\ NonEmptyArray(listCall.entry.color)
    /\ Pinned(listCall.entry)
    /\ listCall.facets = {}
    /\ ~HasAggNamed(Val(listCall.request), "colorSwatch")
    /\ HasAggNamed(Val(listCall.request), "priceMin")
    /\ HasAggNamed(Val(listCall.request), "priceMax")

\* the alias table read in its order: createdAt, price, discountPercent, id
MappedField(token) ==
    IF ContainsCreatedAt(token) THEN S_createdAt
    ELSE IF ContainsPrice(token) THEN S_actualMinPrice
    ELSE IF Contains(toLowerCase(token), toLowerCase(S_discountPercent)) THEN S_discountPercent
    ELSE S_id

\* C13: the sort list of every request sent to the engine starts with the
\* relevance score descending and ends with id ascending; with no sortBy
\* these are its only entries, and with a recognized sortBy there is exactly
\* one entry between them, on the mapped field, descending when the token
\* starts with '-' and ascending otherwise.
C13_SortListShape ==
    Compiled =>
        LET sort == Val(listCall.request).sort
            o == listCall.entry
        IN /\ Len(sort) >= 2
           /\ sort[1] = SortEntry(S_score, "desc")
           /\ sort[Len(sort)] = SortEntry(S_id, "asc")
           /\ ~IsDef(o.sortBy) => Len(sort) = 2
           /\ (IsDef(o.sortBy) /\ Recognized(Val(o.sortBy))) =>
                 /\ Len(sort) = 3
                 /\ sort[2].field = MappedField(Val(o.sortBy))
                 /\ sort[2].dir = IF Val(o.sortBy)[1] = "-" THEN "desc" ELSE "asc"

\* a descending sort on id: three entries, id descending between the score
\* and the id tiebreak
C13_Witness ==
    /\ Compiled
    /\ listCall.entry.sortBy = Def(<<"-","i","d">>)
    /\ Val(listCall.request).sort
          = <<SortEntry(S_score, "desc"), SortEntry(S_id, "desc"), SortEntry(S_id, "asc")>>

IsPriceRange(clause) == clause.clause = "range" /\ clause.field = "actualMinPrice"

\* C14: when minPrice or maxPrice is supplied, 0 included, the must section
\* holds the range constraints on actualMinPrice, the lower bound being
\* minPrice and the upper bound maxPrice when supplied and a bound not
\* supplied left open; when neither is supplied the must section holds no
\* range constraint.
C14_PriceRangeWhenSupplied ==
    Compiled =>
        LET o == listCall.entry
            must == Section(Val(listCall.request).query.bool.must)
        IN /\ (IsDef(o.minPrice) \/ IsDef(o.maxPrice)) =>
                 /\ \E i \in 1..Len(must) : IsPriceRange(must[i])
                 /\ IsDef(o.minPrice) => InSeq(Range("actualMinPrice", "gte", o.minPrice), must)
                 /\ IsDef(o.maxPrice) => InSeq(Range("actualMinPrice", "lte", o.maxPrice), must)
                 /\ \A i \in 1..Len(must) :
                       IsPriceRange(must[i]) =>
                          must[i].bound = (IF must[i].op = "gte" THEN o.minPrice ELSE o.maxPrice)
           /\ (~IsDef(o.minPrice) /\ ~IsDef(o.maxPrice)) =>
                 ~ \E i \in 1..Len(must) : IsPriceRange(must[i])

\* C15: a successful listBrands call returns a nextToken exactly when the
\* number of hits equals the size its request asked the engine for, and the
\* token then encodes the sort tuple of the last hit.
C15_BrandsNextTokenIffFullPage ==
    (listCall.op = "listBrands" /\ listCall.outcome.kind = "returned") =>
        LET v == listCall.outcome.value
            requested == Val(listCall.request).size
        IN /\ IsDef(v.nextToken) <=> v.items = requested
           /\ IsDef(v.nextToken) => Val(v.nextToken) = EncodeCursor(Val(v.lastSort))

\* C16: listProducts leaves the options object as the caller passed it, and
\* a second call with the same object compiles the sort list of the first.
C16_OptionsLeftUnchanged ==
    listCall.op = "listProducts" =>
        /\ options = listCall.entry
        /\ Compiled =>
              LET again == CompileProducts(options, listCall.facets)
              IN /\ IsDef(again.request)
                 /\ Val(again.request).sort = Val(listCall.request).sort

MatchesKeyword(doc, keyword) ==
    \/ StartsWith(toLowerCase(doc.title.th), toLowerCase(keyword))
    \/ StartsWith(toLowerCase(doc.title.en), toLowerCase(keyword))

MatchesACategory(doc, categories) ==
    \E i \in 1..Len(categories) : categories[i] \in doc.categorySlugs

\* C18: with a keyword and a non-empty category set, every document that
\* satisfies the compiled query matches the keyword on one of the two title
\* fields and matches one of the requested categories; the category set
\* never adds documents to those the keyword alone matches.
C18_KeywordAndCategories ==
    (/\ Compiled
     /\ TruthyStr(listCall.entry.keyword)
     /\ NonEmptyArray(listCall.entry.categories)) =>
        LET o == listCall.entry
            alone == CompileProducts([o EXCEPT !.categories = Undefined], listCall.facets)
        IN /\ \A doc \in Hits(Val(listCall.request)) :
                 /\ MatchesKeyword(doc, Val(o.keyword))
                 /\ MatchesACategory(doc, Val(o.categories))
           /\ Hits(Val(listCall.request)) \subseteq Hits(Val(alone.request))

----------------------------------------------------------------------------
(* Bulk mutations: claims *)

\* the identifier a bulk mutation addresses a record by
NaturalId(op, record) ==
    IF op = "saveProducts" THEN record.sku
    ELSE IF op = "syncBrands" THEN record.id
    ELSE record.indexId

\* the script parameters a bulk mutation passes for a record
ParamsOf(op, record) ==
    IF op \in {"saveProducts", "syncBrands"} THEN Serialize(record) ELSE record

IsUpdateHeader(entry) == DOMAIN entry = {"update"}
IsScriptedBody(entry) == "script" \in DOMAIN entry

\* C11: every bulk mutation over n records builds a body of exactly 2n
\* entries, an update header then a scripted body for each record in input
\* order, the i-th header addressed to the i-th record's natural identifier
\* (SKU, brand id, stock indexId).
C11_BulkBodyTwoPerRecord ==
    bulkCall.op # "none" =>
        /\ Len(bulkCall.body) = 2 * Len(bulkCall.input)
        /\ \A i \in 1..Len(bulkCall.input) :
              /\ IsUpdateHeader(bulkCall.body[2 * i - 1])
              /\ bulkCall.body[2 * i - 1].update._id = NaturalId(bulkCall.op, bulkCall.input[i])
              /\ IsScriptedBody(bulkCall.body[2 * i])
              /\ bulkCall.body[2 * i].script.params = ParamsOf(bulkCall.op, bulkCall.input[i])

\* a stock mutation over two records with different identifiers built its body
C11_Witness ==
    /\ bulkCall.op = "reserveStocks"
    /\ Len(bulkCall.input) = 2
    /\ bulkCall.input[1].indexId # bulkCall.input[2].indexId
    /\ Len(bulkCall.body) = 4
    /\ bulkCall.outcome.kind = "returned"

====
